---- MODULE Spec2Model ----
(***************************************************************************)
(* State-machine model of GeminiChatBot.py: the session-scoped thread      *)
(* store (chats, chat_titles, active_chat, chat_counter, user_input), the  *)
(* sidebar commands New Chat / Select Chat / Delete Chat, the submission   *)
(* handler and the title generator.                                        *)
(*                                                                         *)
(* Text is modelled as a sequence of one-character strings, so that the    *)
(* string operations of the source (split, join, strip, replace, slicing,  *)
(* f-string concatenation) are computed and not assumed.                   *)
(***************************************************************************)
EXTENDS Integers, Sequences, FiniteSets, TLC

\* ------------------------------------------------------------------ bounds

\* New Chat is offered only while chat_counter < MaxCounter.
MaxCounter == 3
\* A submission is offered only while the live threads hold fewer than
\* MaxUserTurns user turns in total.
MaxUserTurns == 2
\* Longest prompt drawn from the two-letter alphabet for the fallback title.
MaxPromptLen == 11
\* Longest title response drawn from the five-character alphabet.
MaxResponseLen == 5

\* ------------------------------------------------------------- text values

Greeting == <<"H", "e", "l", "l", "o", "!", " ", "H", "o", "w", " ", "c", "a", "n", " ", "I", " ", "a", "s", "s", "i", "s", "t", " ", "y", "o", "u", " ", "t", "o", "d", "a", "y", "?">>
ChatPrefix == <<"C", "h", "a", "t", " ">>
ErrorTurnPrefix == <<"E", "r", "r", "o", "r", ":", " ">>
ErrorMessagePrefix == <<"A", "n", " ", "e", "r", "r", "o", "r", " ", "o", "c", "c", "u", "r", "r", "e", "d", ":", " ">>
Ellipsis == <<".", ".", ".">>
NewChatTitle == <<"N", "e", "w", " ", "C", "h", "a", "t">>
EmptyText == <<>>

\* Characters str.split() and str.strip() treat as whitespace.
Whitespace == {" ", "\t", "\n", "\r", "\f"}

DigitChar == <<"0", "1", "2", "3", "4", "5", "6", "7", "8", "9">>

\* str(n) of a non-negative integer, as the f-string formats it.
RECURSIVE IntToText(_)
IntToText(n) ==
    IF n < 10 THEN <<DigitChar[n + 1]>>
    ELSE IntToText(n \div 10) \o <<DigitChar[(n % 10) + 1]>>

Min(a, b) == IF a <= b THEN a ELSE b

\* ----------------------------------------------------- Python dict (ordered)

\* A dict is the sequence of its items [k, v] in insertion order.
EmptyDict == <<>>

DictKeys(d) == [i \in 1..Len(d) |-> d[i].k]

KeySet(d) == {d[i].k : i \in 1..Len(d)}

DictHas(d, key) == \E i \in 1..Len(d) : d[i].k = key

\* d.get(key, default)
DictGet(d, key, default) ==
    IF DictHas(d, key)
    THEN d[CHOOSE i \in 1..Len(d) : d[i].k = key].v
    ELSE default

\* d[key] = value: an existing key keeps its position, a new one goes last.
DictSet(d, key, value) ==
    IF DictHas(d, key)
    THEN [i \in 1..Len(d) |-> IF d[i].k = key THEN [k |-> key, v |-> value] ELSE d[i]]
    ELSE Append(d, [k |-> key, v |-> value])

\* Variant: the item is removed by position, not by key.
DictDelFirst(d, key) == Tail(d)

\* del d[key]
DictDel(d, key) == SelectSeq(d, LAMBDA item : item.k # key)

\* ------------------------------------------------------- string operations

\* str.split() with no argument: the maximal runs of non-whitespace, scanned
\* left to right; cur is the word being read, acc the words already closed.
RECURSIVE SplitScan(_, _, _, _)
SplitScan(s, i, cur, acc) ==
    IF i > Len(s)
    THEN (IF cur = <<>> THEN acc ELSE Append(acc, cur))
    ELSE IF s[i] \in Whitespace
         THEN SplitScan(s, i + 1, <<>>, IF cur = <<>> THEN acc ELSE Append(acc, cur))
         ELSE SplitScan(s, i + 1, Append(cur, s[i]), acc)

Split(s) == SplitScan(s, 1, <<>>, <<>>)

\* " ".join(words)
RECURSIVE JoinSpace(_)
JoinSpace(words) ==
    IF words = <<>> THEN <<>>
    ELSE IF Len(words) = 1 THEN words[1]
    ELSE words[1] \o <<" ">> \o JoinSpace(Tail(words))

\* str.strip(): whitespace removed from both ends.
RECURSIVE LStrip(_)
LStrip(s) == IF s # <<>> /\ s[1] \in Whitespace THEN LStrip(Tail(s)) ELSE s

RECURSIVE RStrip(_)
RStrip(s) ==
    IF s # <<>> /\ s[Len(s)] \in Whitespace THEN RStrip(SubSeq(s, 1, Len(s) - 1)) ELSE s

Strip(s) == LStrip(RStrip(s))

\* s.split("\n")[0]: the text before the first newline.
RECURSIVE FirstLine(_)
FirstLine(s) ==
    IF s = <<>> \/ s[1] = "\n" THEN <<>> ELSE <<s[1]>> \o FirstLine(Tail(s))

\* Variant: asterisks and quotes are left in the title.
RemoveCharNone(s, ch) == s

\* s.replace(ch, "")
RemoveChar(s, ch) == SelectSeq(s, LAMBDA c : c # ch)

\* s[:n]
Prefix(s, n) == SubSeq(s, 1, Min(n, Len(s)))

\* --------------------------------------------------------- title generator

TitleMaxLen == 50
FallbackWords == 5

\* Variant: the words are not cut to five.
FirstWordsAll(words) == words

\* original_prompt.split()[:5]
FirstWords(words) == Prefix(words, FallbackWords)

\* The except branch of generate_title_from_summary.
FallbackTitle(original_prompt) ==
    IF original_prompt # <<>>
    THEN JoinSpace(FirstWords(Split(original_prompt))) \o Ellipsis
    ELSE NewChatTitle

\* The try branch of generate_title_from_summary, applied to response.text.
SanitizeTitle(text) ==
    Prefix(Strip(RemoveChar(RemoveChar(FirstLine(Strip(text)), "*"), "\"")), TitleMaxLen)

\* Variant: the exception of a failed title call leaves the function.
generate_title_uncaught(text_content, original_prompt, resp) ==
    IF resp.ok
    THEN [raised |-> FALSE, value |-> SanitizeTitle(resp.text)]
    ELSE [raised |-> TRUE, value |-> resp.text]

\* resp is the outcome of the title model's call: [ok |-> TRUE, text |-> the
\* response text] or [ok |-> FALSE, text |-> the cause of the exception].
\* The result tells the caller whether an exception left the function:
\* the function catches every Exception, so none does.
generate_title_from_summary(text_content, original_prompt, resp) ==
    IF resp.ok
    THEN [raised |-> FALSE, value |-> SanitizeTitle(resp.text)]
    ELSE [raised |-> FALSE, value |-> FallbackTitle(original_prompt)]

\* ------------------------------------------------------------ session state

VARIABLES
    chats,          \* st.session_state.chats: dict id -> list of turns
    chat_titles,    \* st.session_state.chat_titles: dict id -> title
    active_chat,    \* st.session_state.active_chat
    chat_counter,   \* st.session_state.chat_counter
    user_input,     \* st.session_state.user_input
    event,          \* history variable: the command processed last
    title_calls,    \* history variable: calls of generate_title_from_summary
                    \* for each live thread since that thread was created
    minted,         \* history variable: identifiers minted since chat_counter
                    \* was last set to 1
    fb_prompt,      \* input of the fallback-title computation (SpecFallback)
    fb_title,       \* its result, or Pending
    ts_response,    \* response text given to the title sanitization (SpecSanitize)
    ts_title,       \* its result, or Pending
    boot            \* the first script run: where it stands, what it has
                    \* rendered, and the fatal condition that stopped it

vars == <<chats, chat_titles, active_chat, chat_counter, user_input,
          event, title_calls, minted, fb_prompt, fb_title, ts_response,
          ts_title, boot>>

session == <<chats, chat_titles, active_chat, chat_counter, user_input>>

Pending == <<"?">>

\* f"Chat {n}"
ChatId(n) == ChatPrefix \o IntToText(n)

\* Variant: replies are stored under the role name of another API.
ModelTurnAssistant(text) == [role |-> "assistant", content |-> text]

ModelTurn(text) == [role |-> "model", content |-> text]

UserTurn(text) == [role |-> "user", content |-> text]

\* Variant: the greeting carries the role name of another API.
SeedHistoryAssistant == <<[role |-> "assistant", content |-> Greeting]>>

\* The one-turn history every new thread starts with.
SeedHistory == <<ModelTurn(Greeting)>>

\* Variant: the recorded turn leaves the cause out.
ErrorTurnNoCause(cause) == ModelTurn(ErrorTurnPrefix \o ErrorMessagePrefix)

\* The turn recorded when the completion call raises exception e.
ErrorTurn(cause) == ModelTurn(ErrorTurnPrefix \o (ErrorMessagePrefix \o cause))

\* The command processed last: its kind and argument, the outcomes of the
\* two external calls it made, the keys of chats and the active thread
\* when it started, and the requests it sent to the API, in order.
Event(op, chat_id, prompt, completion, text, title) ==
    [op |-> op, chat_id |-> chat_id, prompt |-> prompt,
     completion |-> completion, text |-> text, title |-> title,
     keys |-> DictKeys(chats), active |-> active_chat, requests |-> <<>>]

\* title_calls carried over to the key set ks; the threads in fresh start at zero.
CarryCalls(ks, fresh) ==
    [id \in ks |-> IF id \in fresh \/ id \notin DOMAIN title_calls
                   THEN 0 ELSE title_calls[id]]

SessionInit ==
    /\ chats = <<[k |-> ChatId(1), v |-> SeedHistory]>>
    /\ chat_titles = <<[k |-> ChatId(1), v |-> ChatId(1)]>>
    /\ active_chat = ChatId(1)
    /\ chat_counter = 1
    /\ user_input = EmptyText
    /\ event = [op |-> "init", chat_id |-> ChatId(1), prompt |-> EmptyText,
                completion |-> "none", text |-> EmptyText, title |-> "none",
                keys |-> <<>>, active |-> ChatId(1), requests |-> <<>>]
    /\ title_calls = [id \in {ChatId(1)} |-> 0]
    /\ minted = {ChatId(1)}

\* What a script run that reaches its last line has rendered.
FullPage == {"title", "sidebar", "messages", "chat_input"}

\* The first script run went through: nothing fatal, the page is rendered.
Running == [pc |-> "ready", shown |-> FullPage, fatal |-> "none"]

Init ==
    /\ SessionInit
    /\ fb_prompt = EmptyText
    /\ fb_title = Pending
    /\ ts_response = EmptyText
    /\ ts_title = Pending
    /\ boot = Running

\* -------------------------------------------------------- utility functions

\* Variant: the submission starts from a new list.
get_active_chat_history_fresh == <<>>

get_active_chat_history == DictGet(chats, active_chat, <<>>)

\* Variant: every thread holds the same list object, so all receive the turns.
save_chat_history_shared(d, chat_id, messages) ==
    [i \in 1..Len(d) |-> [k |-> d[i].k, v |-> messages]]

\* The value of st.session_state.chats after save_chat_history.
save_chat_history(d, chat_id, messages) == DictSet(d, chat_id, messages)

\* ------------------------------------------------------------------ New Chat

\* Variant: the counter is not incremented.
NextCounterSame(c) == c

NextCounter(c) == c + 1

NewChat ==
    /\ "sidebar" \in boot.shown
    /\ chat_counter < MaxCounter
    /\ LET counter == NextCounter(chat_counter)
           new_id == ChatId(counter)
       IN /\ chat_counter' = counter
          /\ chats' = DictSet(chats, new_id, SeedHistory)
          /\ chat_titles' = DictSet(chat_titles, new_id, new_id)
          /\ active_chat' = new_id
          /\ event' = Event("new", new_id, EmptyText, "none", EmptyText, "none")
          /\ title_calls' = CarryCalls(KeySet(chats) \cup {new_id}, {new_id})
          /\ minted' = minted \cup {new_id}
    /\ UNCHANGED <<user_input, fb_prompt, fb_title, ts_response, ts_title, boot>>

\* --------------------------------------------------------------- Select Chat

\* The sidebar offers one select button for each key of chats.
SelectChat(chat_id) ==
    /\ "sidebar" \in boot.shown
    /\ chat_id \in KeySet(chats)
    /\ active_chat' = chat_id
    /\ event' = Event("select", chat_id, EmptyText, "none", EmptyText, "none")
    /\ UNCHANGED <<chats, chat_titles, chat_counter, user_input, title_calls,
                   minted, fb_prompt, fb_title, ts_response, ts_title, boot>>

\* --------------------------------------------------------------- Delete Chat

\* Variant: the counter is not reset when the last thread goes.
ResetCounterKept == chat_counter

ResetCounter == 1

\* Variant: active_chat is left naming the deleted thread.
NextActiveStale(rest) == active_chat

\* Variant: the thread inserted last becomes active.
NextActiveLast(rest) == DictKeys(rest)[Len(rest)]

\* active_chat after chat_id (the active thread) was removed and left rest.
NextActive(rest) == DictKeys(rest)[1]

\* Variant: the title of the deleted thread is kept.
DropTitleKept(titles, chat_id) == titles

\* chat_titles after the removal of chat_id.
DropTitle(titles, chat_id) ==
    IF DictHas(titles, chat_id) THEN DictDel(titles, chat_id) ELSE titles

\* Variant: the counter is reset whenever the active thread is deleted.
delete_chat_reset(chat_id) ==
    /\ "sidebar" \in boot.shown
    /\ event' = Event("delete", chat_id, EmptyText, "none", EmptyText, "none")
    /\ UNCHANGED <<user_input, fb_prompt, fb_title, ts_response, ts_title, boot>>
    /\ IF DictHas(chats, chat_id)
       THEN LET rest == DictDel(chats, chat_id)
                titles == DropTitle(chat_titles, chat_id)
            IN IF chat_id = active_chat
               THEN IF rest # EmptyDict
                    THEN /\ chats' = rest
                         /\ chat_titles' = titles
                         /\ active_chat' = NextActive(rest)
                         /\ chat_counter' = ResetCounter
                         /\ title_calls' = CarryCalls(KeySet(rest), {})
                         /\ minted' = minted
                    ELSE LET new_chat_id == ChatId(ResetCounter)
                         IN /\ chat_counter' = ResetCounter
                            /\ chats' = DictSet(rest, new_chat_id, SeedHistory)
                            /\ chat_titles' = DictSet(titles, new_chat_id, new_chat_id)
                            /\ active_chat' = new_chat_id
                            /\ title_calls' = CarryCalls({new_chat_id}, {new_chat_id})
                            /\ minted' = {new_chat_id}
               ELSE /\ chats' = rest
                    /\ chat_titles' = titles
                    /\ title_calls' = CarryCalls(KeySet(rest), {})
                    /\ UNCHANGED <<active_chat, chat_counter, minted>>
       ELSE UNCHANGED <<chats, chat_titles, active_chat, chat_counter,
                        title_calls, minted>>

delete_chat(chat_id) ==
    /\ "sidebar" \in boot.shown
    /\ event' = Event("delete", chat_id, EmptyText, "none", EmptyText, "none")
    /\ UNCHANGED <<user_input, fb_prompt, fb_title, ts_response, ts_title, boot>>
    /\ IF DictHas(chats, chat_id)
       THEN LET rest == DictDel(chats, chat_id)
                titles == DropTitle(chat_titles, chat_id)
            IN IF chat_id = active_chat
               THEN IF rest # EmptyDict
                    THEN /\ chats' = rest
                         /\ chat_titles' = titles
                         /\ active_chat' = NextActive(rest)
                         /\ chat_counter' = chat_counter
                         /\ title_calls' = CarryCalls(KeySet(rest), {})
                         /\ minted' = minted
                    ELSE LET new_chat_id == ChatId(ResetCounter)
                         IN /\ chat_counter' = ResetCounter
                            /\ chats' = DictSet(rest, new_chat_id, SeedHistory)
                            /\ chat_titles' = DictSet(titles, new_chat_id, new_chat_id)
                            /\ active_chat' = new_chat_id
                            /\ title_calls' = CarryCalls({new_chat_id}, {new_chat_id})
                            /\ minted' = {new_chat_id}
               ELSE /\ chats' = rest
                    /\ chat_titles' = titles
                    /\ title_calls' = CarryCalls(KeySet(rest), {})
                    /\ UNCHANGED <<active_chat, chat_counter, minted>>
       ELSE UNCHANGED <<chats, chat_titles, active_chat, chat_counter,
                        title_calls, minted>>

\* -------------------------------------------------------------- Send Message

Sourdough == <<"H", "o", "w", " ", "d", "o", " ", "I", " ", "b", "a", "k", "e", " ", "s", "o", "u", "r", "d", "o", "u", "g", "h", " ", "b", "r", "e", "a", "d", " ", "a", "t", " ", "h", "o", "m", "e">>
HiThere == <<"H", "i", " ", "t", "h", "e", "r", "e">>
Quota == <<"q", "u", "o", "t", "a">>
TripPlansRaw == <<"*", "*", "\"", "T", "r", "i", "p", " ", "P", "l", "a", "n", "s", "\"", "*", "*", "\n", "E", "x", "t", "r", "a">>
QuotedChat1 == <<"\"", "C", "h", "a", "t", " ", "1", "\"">>

\* What st.chat_input hands to the script: nothing, or the submitted text.
Prompts == {EmptyText, Sourdough}

\* Outcomes of model.generate_content(api_history) and response.text.
Completions == {[ok |-> TRUE, text |-> HiThere], [ok |-> FALSE, text |-> Quota]}

\* Outcomes of title_gen_model.generate_content(...) and response.text.
TitleOutcomes ==
    {[ok |-> TRUE, text |-> TripPlansRaw], [ok |-> TRUE, text |-> QuotedChat1],
     [ok |-> FALSE, text |-> Quota]}

UserTurns(history) == Len(SelectSeq(history, LAMBDA m : m.role = "user"))

RECURSIVE TotalUserTurns(_)
TotalUserTurns(d) ==
    IF d = <<>> THEN 0 ELSE UserTurns(d[1].v) + TotalUserTurns(Tail(d))

\* is_default_title and len(active_chat_history) >= 2
NeedsTitle(titles, current_chat_id, history) ==
    /\ DictGet(titles, current_chat_id, EmptyText) = current_chat_id
    /\ Len(history) >= 2

\* Variant: only the latest message is sent.
ApiHistoryLatest(history) ==
    <<[role |-> history[Len(history)].role,
       parts |-> <<[text |-> history[Len(history)].content]>>]>>

\* api_history: every message of the history as a role and its text parts.
ApiHistory(history) ==
    [i \in 1..Len(history) |->
        [role |-> history[i].role, parts |-> <<[text |-> history[i].content]>>]]

\* model.generate_content(api_history)
CompletionRequest(history) ==
    [to |-> "completion", history |-> ApiHistory(history),
     prompt |-> EmptyText, reply |-> EmptyText]

\* title_gen_model.generate_content(...) for the snippet of prompt and reply
TitleRequest(original_prompt, text_content) ==
    [to |-> "title", history |-> <<>>,
     prompt |-> original_prompt, reply |-> text_content]

\* user_input after the submission was processed.
ClearedInput == EmptyText

\* Variant: the processed input is left in user_input.
InputKept(pending) == pending

\* user_input, which held pending since the input processing stored it,
\* after handle_chat_submission(pending).
InputAfterSubmission(pending) == ClearedInput

handle_chat_submission(prompt_text, comp, resp) ==
    IF prompt_text = EmptyText
    THEN /\ event' = Event("send", active_chat, prompt_text, "none", EmptyText, "none")
         /\ UNCHANGED <<chats, chat_titles, active_chat, chat_counter, title_calls,
                        minted>>
         /\ user_input' = prompt_text
    ELSE LET asked == Append(get_active_chat_history, UserTurn(prompt_text))
             reply_text == comp.text
             answered == Append(asked, ModelTurn(reply_text))
             current_chat_id == active_chat
             retitle == comp.ok /\ NeedsTitle(chat_titles, current_chat_id, answered)
             user_prompt_for_title == answered[Len(answered) - 1].content
             new_title == generate_title_from_summary(
                              reply_text, user_prompt_for_title, resp)
             calls == CarryCalls(KeySet(chats) \cup {active_chat}, {})
             \* the turns appended inside the try block, then the except block
             final == IF ~comp.ok THEN Append(asked, ErrorTurn(comp.text))
                      ELSE IF retitle /\ new_title.raised
                           THEN Append(answered, ErrorTurn(new_title.value))
                           ELSE answered
         IN /\ chats' = save_chat_history(chats, active_chat, final)
            /\ chat_titles' =
                 IF retitle /\ ~new_title.raised
                 THEN DictSet(chat_titles, current_chat_id, new_title.value)
                 ELSE chat_titles
            /\ title_calls' =
                 IF retitle THEN [calls EXCEPT ![current_chat_id] = @ + 1] ELSE calls
            /\ event' = [Event("send", active_chat, prompt_text,
                               IF comp.ok THEN "ok" ELSE "fail", comp.text,
                               IF ~retitle THEN "none"
                               ELSE IF resp.ok THEN "ok" ELSE "fail")
                            EXCEPT !.requests =
                                <<CompletionRequest(asked)>> \o
                                (IF retitle
                                 THEN <<TitleRequest(user_prompt_for_title, reply_text)>>
                                 ELSE <<>>)]
            /\ user_input' = InputAfterSubmission(prompt_text)
            /\ UNCHANGED <<active_chat, chat_counter, minted>>

\* The input processing at the end of the script: the submitted text becomes
\* user_input, and a non-empty user_input is handled.
SendMessage(prompt_from_input, comp, resp) ==
    /\ "chat_input" \in boot.shown
    /\ TotalUserTurns(chats) < MaxUserTurns
    /\ UNCHANGED <<fb_prompt, fb_title, ts_response, ts_title, boot>>
    /\ LET pending == IF prompt_from_input # EmptyText
                      THEN prompt_from_input ELSE user_input
       IN IF pending # EmptyText
          THEN handle_chat_submission(pending, comp, resp)
          ELSE /\ event' = Event("send", active_chat, pending, "none", EmptyText, "none")
               /\ user_input' = pending
               /\ UNCHANGED <<chats, chat_titles, active_chat, chat_counter,
                              title_calls, minted>>

\* ------------------------------------------------------------ specification

\* The identifiers New Chat can have minted.
AllIds == {ChatId(n) : n \in 1..MaxCounter}

Next ==
    \/ NewChat
    \/ \E chat_id \in AllIds : SelectChat(chat_id)
    \/ \E chat_id \in AllIds : delete_chat(chat_id)
    \/ \E p \in Prompts, comp \in Completions, resp \in TitleOutcomes :
          SendMessage(p, comp, resp)

Spec == Init /\ [][Next]_vars

\* ------------------------------------------------------ the first script run

\* The script run was stopped by st.stop() having rendered shown.
Stopped(shown, fatal) == [pc |-> "stopped", shown |-> shown, fatal |-> fatal]

\* Before the first run nothing is rendered and st.session_state is empty.
InitStartup ==
    /\ boot = [pc |-> "start", shown |-> {}, fatal |-> "none"]
    /\ chats = EmptyDict
    /\ chat_titles = EmptyDict
    /\ active_chat = EmptyText
    /\ chat_counter = 0
    /\ user_input = EmptyText
    /\ event = [op |-> "init", chat_id |-> ChatId(1), prompt |-> EmptyText,
                completion |-> "none", text |-> EmptyText, title |-> "none",
                keys |-> <<>>, active |-> ChatId(1), requests |-> <<>>]
    /\ title_calls = <<>>
    /\ minted = {}
    /\ fb_prompt = EmptyText
    /\ fb_title = Pending
    /\ ts_response = EmptyText
    /\ ts_title = Pending

\* The first run of the script, from its first line to st.stop() or to its
\* end: api_key_found is whether os.getenv returns a key, configure_ok
\* whether genai.configure returns, model_ok whether genai.GenerativeModel
\* returns.
ScriptStart(api_key_found, configure_ok, model_ok) ==
    /\ boot.pc = "start"
    /\ UNCHANGED <<user_input, event, fb_prompt, fb_title, ts_response, ts_title>>
    /\ IF ~api_key_found
       THEN /\ boot' = Stopped({"error"}, "credential")
            /\ UNCHANGED <<chats, chat_titles, active_chat, chat_counter,
                           title_calls, minted>>
       ELSE IF ~configure_ok
       THEN /\ boot' = Stopped({"error"}, "configure")
            /\ UNCHANGED <<chats, chat_titles, active_chat, chat_counter,
                           title_calls, minted>>
       ELSE \* st.title, then the session state is initialized
            /\ chats' = <<[k |-> ChatId(1), v |-> SeedHistory]>>
            /\ chat_titles' = <<[k |-> ChatId(1), v |-> ChatId(1)]>>
            /\ active_chat' = ChatId(1)
            /\ chat_counter' = 1
            /\ title_calls' = [id \in {ChatId(1)} |-> 0]
            /\ minted' = {ChatId(1)}
            /\ IF ~model_ok
               THEN boot' = Stopped({"title", "error", "sidebar_error"}, "model")
               ELSE boot' = Running

NextStartup ==
    \/ \E api_key_found \in BOOLEAN, configure_ok \in BOOLEAN, model_ok \in BOOLEAN :
          ScriptStart(api_key_found, configure_ok, model_ok)
    \/ Next

SpecStartup == InitStartup /\ [][NextStartup]_vars

\* ---------------------------------------- fallback title as a pure function

MixedWhitespace == <<"a", "\t", "b", "\n", "\n", "c", " ", "d", "\r", "e", "\f", "f">>

\* Every text over {"a", " "} of at most MaxPromptLen characters, and two
\* prompts with other characters.
FallbackInputs ==
    UNION {[1..n -> {"a", " "}] : n \in 0..MaxPromptLen}
        \cup {Sourdough, MixedWhitespace}

InitFallback ==
    /\ SessionInit
    /\ fb_prompt \in FallbackInputs
    /\ fb_title = Pending
    /\ ts_response = EmptyText
    /\ ts_title = Pending
    /\ boot = Running

\* generate_title_from_summary with the title model's call failing.
ComputeFallback ==
    /\ fb_title = Pending
    /\ fb_title' = generate_title_from_summary(
                       HiThere, fb_prompt, [ok |-> FALSE, text |-> Quota]).value
    /\ UNCHANGED <<chats, chat_titles, active_chat, chat_counter, user_input,
                   event, title_calls, minted, fb_prompt, ts_response, ts_title,
                   boot>>

NextFallback == ComputeFallback

SpecFallback == InitFallback /\ [][NextFallback]_vars

\* ------------------------------------- title sanitization as a pure function

LongA(n) == [i \in 1..n |-> "a"]

\* Every text over a, space, asterisk, quote and newline of at most
\* MaxResponseLen characters, and responses around the 50-character cut.
SanitizeInputs ==
    UNION {[1..n -> {"a", " ", "*", "\"", "\n"}] : n \in 0..MaxResponseLen}
        \cup {TripPlansRaw, QuotedChat1, LongA(49), LongA(50), LongA(51),
              LongA(49) \o <<" ", "a">>,
              <<"*", "*">> \o LongA(60) \o <<"*", "\n", "a">>}

InitSanitize ==
    /\ SessionInit
    /\ fb_prompt = EmptyText
    /\ fb_title = Pending
    /\ ts_response \in SanitizeInputs
    /\ ts_title = Pending
    /\ boot = Running

\* generate_title_from_summary with the title model answering ts_response.
ComputeSanitized ==
    /\ ts_title = Pending
    /\ ts_title' = generate_title_from_summary(
                       HiThere, Sourdough, [ok |-> TRUE, text |-> ts_response]).value
    /\ UNCHANGED <<chats, chat_titles, active_chat, chat_counter, user_input,
                   event, title_calls, minted, fb_prompt, fb_title, ts_response,
                   boot>>

NextSanitize == ComputeSanitized

SpecSanitize == InitSanitize /\ [][NextSanitize]_vars

\* ------------------------------------------------------------------- claims

HistoryOf(d, id) == DictGet(d, id, <<>>)

\* part occurs in text as a contiguous run of characters.
Contains(text, part) ==
    \E i \in 1..(Len(text) - Len(part) + 1) : SubSeq(text, i, i + Len(part) - 1) = part

\* "Chat " followed by the decimal digit of n, for n < 10.
ClaimedId(n) == <<"C", "h", "a", "t", " ", DigitChar[n + 1]>>

ClaimedSeed == <<[role |-> "model", content |-> Greeting]>>

\* C1: in every reachable state the key set of chats equals the key set of
\* chat_titles.
C1_SameKeys == KeySet(chats) = KeySet(chat_titles)

\* A thread was deleted while others remained.
C1_Witness ==
    /\ event.op = "delete"
    /\ Len(chats) >= 2
    /\ Len(event.keys) = Len(chats) + 1

\* C2: in every reachable state chats is non-empty and active_chat is one of
\* its keys.
C2_ActiveExists == chats # EmptyDict /\ active_chat \in KeySet(chats)

\* The last remaining thread was deleted.
C2_Witness == event.op = "delete" /\ event.keys = <<event.chat_id>>

\* C3 as stated: no step decreases chat_counter.
C3_CounterNeverDecreases == [][chat_counter' >= chat_counter]_vars

\* C3 as amended: a step decreases chat_counter only when it deletes the
\* sole remaining thread, and then sets it to 1; and New Chat never mints an
\* identifier already minted since chat_counter was last set to 1.
C3_DecreasesOnlyOnReset ==
    [][/\ chat_counter' < chat_counter =>
            /\ event'.op = "delete"
            /\ DictKeys(chats) = <<event'.chat_id>>
            /\ chat_counter' = 1
       /\ event'.op = "new" => active_chat' \notin minted]_vars

\* A deletion that left threads behind happened with the counter at 3 or more.
C3_Witness ==
    /\ event.op = "delete"
    /\ Len(event.keys) >= 2
    /\ event.chat_id = event.active
    /\ chat_counter >= 3

\* C4: deleting the sole remaining thread leaves exactly the thread "Chat 1",
\* active, titled "Chat 1", holding only the greeting, and the counter at 1.
C4_DeleteSoleThread ==
    [][(event'.op = "delete" /\ DictKeys(chats) = <<event'.chat_id>>) =>
          /\ chats' = <<[k |-> ClaimedId(1), v |-> ClaimedSeed]>>
          /\ chat_titles' = <<[k |-> ClaimedId(1), v |-> ClaimedId(1)]>>
          /\ active_chat' = ClaimedId(1)
          /\ chat_counter' = 1]_vars

\* The sole thread deleted was not "Chat 1" and the counter came down to 1.
C4_Witness ==
    /\ event.op = "delete"
    /\ event.keys = <<event.chat_id>>
    /\ event.chat_id # ClaimedId(1)
    /\ chat_counter = 1

\* C5: New Chat increments the counter by one; the identifier
\* "Chat " + counter is then a key of chats and of chat_titles, its title is
\* the identifier, its history is the one greeting turn of role model, and it
\* is the active thread.
C5_NewChatCreates ==
    [][event'.op = "new" =>
          LET id == ClaimedId(chat_counter + 1)
          IN /\ chat_counter' = chat_counter + 1
             /\ id \in KeySet(chats')
             /\ id \in KeySet(chat_titles')
             /\ DictGet(chat_titles', id, EmptyText) = id
             /\ Len(HistoryOf(chats', id)) = 1
             /\ HistoryOf(chats', id)[1].role = "model"
             /\ HistoryOf(chats', id)[1].content = Greeting
             /\ active_chat' = id]_vars

\* New Chat made the third identifier.
C5_Witness == event.op = "new" /\ chat_counter = 3 /\ Len(chats) >= 2

\* C6: a non-empty prompt p whose completion succeeds with reply r extends
\* the active thread's history by exactly {user, p} then {model, r}, whatever
\* title generation does.
C6_SuccessAppendsTwo ==
    [][(event'.op = "send" /\ event'.completion = "ok") =>
          HistoryOf(chats', active_chat) =
              HistoryOf(chats, active_chat)
                  \o <<[role |-> "user", content |-> event'.prompt],
                       [role |-> "model", content |-> event'.text]>>]_vars

\* A second exchange succeeded in a thread that already held one.
C6_Witness ==
    /\ event.op = "send"
    /\ event.completion = "ok"
    /\ event.prompt # EmptyText
    /\ Len(HistoryOf(chats, active_chat)) = 5

\* C7: a prompt whose completion fails appends the user turn and then exactly
\* one turn of role model whose content contains the cause; the title
\* generator is not called, the title is unchanged, the history is stored and
\* user_input is cleared.
C7_FailureAppendsErrorTurn ==
    [][(event'.op = "send" /\ event'.completion = "fail") =>
          LET before == HistoryOf(chats, active_chat)
              after == HistoryOf(chats', active_chat)
          IN /\ Len(after) = Len(before) + 2
             /\ SubSeq(after, 1, Len(before)) = before
             /\ after[Len(before) + 1] = [role |-> "user", content |-> event'.prompt]
             /\ after[Len(before) + 2].role = "model"
             /\ Contains(after[Len(before) + 2].content, event'.text)
             /\ event'.title = "none"
             /\ title_calls' = title_calls
             /\ chat_titles' = chat_titles
             /\ user_input' = EmptyText]_vars

\* A completion failed in a thread that still carries its default title.
C7_Witness ==
    /\ event.op = "send"
    /\ event.completion = "fail"
    /\ event.text # EmptyText
    /\ DictGet(chat_titles, active_chat, EmptyText) = active_chat

\* C8 as stated: the title generator is called on a thread's first successful
\* exchange and at most once in the thread's lifetime.
C8_TitleGeneratedOnce ==
    /\ \A id \in DOMAIN title_calls : title_calls[id] <= 1
    /\ (event.op = "send" /\ event.completion = "ok") => title_calls[active_chat] = 1

\* Words of a text, read off its positions: a word starts at a
\* non-whitespace character that is first or follows whitespace.
WordStarts(s) ==
    {i \in 1..Len(s) : s[i] \notin Whitespace /\ (i = 1 \/ s[i - 1] \in Whitespace)}

WordEnd(s, i) ==
    CHOOSE j \in i..Len(s) :
        /\ \A k \in i..j : s[k] \notin Whitespace
        /\ j = Len(s) \/ s[j + 1] \in Whitespace

NthStart(s, n) ==
    CHOOSE i \in WordStarts(s) : Cardinality({j \in WordStarts(s) : j < i}) = n - 1

WordAt(s, n) == SubSeq(s, NthStart(s, n), WordEnd(s, NthStart(s, n)))

\* The first n words of s with one space between neighbours.
RECURSIVE WordsJoined(_, _)
WordsJoined(s, n) ==
    IF n = 0 THEN <<>>
    ELSE IF n = 1 THEN WordAt(s, 1)
    ELSE WordsJoined(s, n - 1) \o <<" ">> \o WordAt(s, n)

ClaimedFallback(s) ==
    IF s = <<>> THEN <<"N", "e", "w", " ", "C", "h", "a", "t">>
    ELSE WordsJoined(s, Min(5, Cardinality(WordStarts(s)))) \o <<".", ".", ".">>

\* C9: when the completion succeeds and title generation fails, the reply
\* turn stays last in the history, no error turn follows it, the title
\* becomes the fallback title, the history is stored and user_input cleared.
C9_TitleFailureNotFatal ==
    [][(event'.op = "send" /\ event'.title = "fail") =>
          /\ HistoryOf(chats', active_chat) =
                 HistoryOf(chats, active_chat)
                     \o <<[role |-> "user", content |-> event'.prompt],
                          [role |-> "model", content |-> event'.text]>>
          /\ DictGet(chat_titles', active_chat, EmptyText) =
                 ClaimedFallback(event'.prompt)
          /\ user_input' = EmptyText
          /\ active_chat' = active_chat
          /\ chat_counter' = chat_counter]_vars

\* Title generation failed after a successful completion.
C9_Witness ==
    /\ event.op = "send"
    /\ event.completion = "ok"
    /\ event.title = "fail"

\* C10: the fallback title is the first five whitespace-separated words of
\* the prompt (all of them if fewer) joined by single spaces and followed by
\* "...", and is "New Chat" for the empty prompt.
C10_FallbackTitle == fb_title # Pending => fb_title = ClaimedFallback(fb_prompt)

\* The fallback was computed for a prompt of more than five words.
C10_Witness == fb_title # Pending /\ Cardinality(WordStarts(fb_prompt)) > 5

\* Everything rendered that is not an error message.
PageShown == boot.shown \ {"error", "sidebar_error"}

\* C11 as stated: each fatal startup condition stops the run with an error
\* message visible, with no part of the page rendered and no command
\* processed or offered.
C11_FatalStartupShowsNoUI ==
    boot.fatal # "none" =>
        /\ boot.pc = "stopped"
        /\ "error" \in boot.shown
        /\ PageShown = {}
        /\ event.op = "init"
        /\ ~ENABLED Next

\* The text before the first newline of s, or s when it has none.
ClaimedFirstLine(s) ==
    LET breaks == {i \in 1..Len(s) : s[i] = "\n"}
    IN IF breaks = {} THEN s
       ELSE SubSeq(s, 1, (CHOOSE i \in breaks : \A j \in breaks : i <= j) - 1)

ClaimedUnmarked(s) == SelectSeq(s, LAMBDA c : c \notin {"*", "\""})

\* s from its first to its last non-whitespace character.
ClaimedTrim(s) ==
    LET ink == {i \in 1..Len(s) : s[i] \notin Whitespace}
    IN IF ink = {} THEN <<>>
       ELSE SubSeq(s, CHOOSE i \in ink : \A j \in ink : i <= j,
                      CHOOSE i \in ink : \A j \in ink : i >= j)

ClaimedCut(s) == IF Len(s) <= 50 THEN s ELSE SubSeq(s, 1, 50)

\* The title has no newline, asterisk or quote and at most 50 characters.
CleanTitle(t) ==
    /\ Len(t) <= 50
    /\ \A i \in 1..Len(t) : t[i] \notin {"\n", "*", "\""}

\* C12 as stated: the stored title is the first line of the response with
\* asterisks and quotes removed, trimmed, cut to 50 characters.
C12_FirstLineOfResponse ==
    ts_title # Pending =>
        /\ ts_title = ClaimedCut(ClaimedTrim(ClaimedUnmarked(ClaimedFirstLine(ts_response))))
        /\ CleanTitle(ts_title)

\* C12 as amended: the stored title is the first line of the response after
\* the whitespace around the response is trimmed, with asterisks and quotes
\* removed, trimmed, cut to 50 characters; it has no newline, asterisk or
\* quote and at most 50 characters.
C12_FirstLineOfTrimmedResponse ==
    ts_title # Pending =>
        /\ ts_title = ClaimedCut(ClaimedTrim(ClaimedUnmarked(
                          ClaimedFirstLine(ClaimedTrim(ts_response)))))
        /\ CleanTitle(ts_title)

\* A marked-up response of two lines was cut to 50 characters.
C12_Witness ==
    /\ ts_title # Pending
    /\ Len(ts_title) = 50
    /\ \E i \in 1..Len(ts_response) : ts_response[i] = "*"
    /\ \E i \in 1..Len(ts_response) : ts_response[i] = "\n"

\* The numbers n below 10 whose identifier "Chat n" is a key of d.
LiveNumbers(d) == {n \in 1..9 : ClaimedId(n) \in KeySet(d)}

\* C13: deleting the active thread while others remain makes active the
\* remaining thread created earliest, which is the first key of chats in
\* insertion order, whichever thread was deleted.
C13_NextActiveIsEarliest ==
    [][(/\ event'.op = "delete"
        /\ event'.chat_id = active_chat
        /\ DictHas(chats, active_chat)
        /\ Len(chats) > 1) =>
          /\ active_chat' = DictKeys(chats')[1]
          /\ active_chat' =
                 ClaimedId(CHOOSE n \in LiveNumbers(chats') :
                               \A m \in LiveNumbers(chats') : n <= m)
          /\ DictKeys(chats') = SelectSeq(DictKeys(chats), LAMBDA id : id # active_chat)]_vars

\* The active thread "Chat 1" was deleted with two others remaining, and the
\* thread made active is not the one the sidebar lists first.
C13_Witness ==
    /\ event.op = "delete"
    /\ event.chat_id = event.active
    /\ Len(event.keys) = 3
    /\ Len(chats) = 2
    /\ active_chat = ClaimedId(2)

\* C14: Delete Chat(id) with another thread remaining removes exactly id from
\* chats and chat_titles and leaves the counter, every other thread's history
\* and title and, when id is not active, active_chat unchanged; Delete
\* Chat(id) for an id that is no key of chats changes nothing.
C14_DeleteFrame ==
    [][event'.op = "delete" =>
          LET id == event'.chat_id
          IN IF id \notin KeySet(chats)
             THEN session' = session
             ELSE Len(chats) > 1 =>
                    /\ KeySet(chats') = KeySet(chats) \ {id}
                    /\ KeySet(chat_titles') = KeySet(chat_titles) \ {id}
                    /\ chat_counter' = chat_counter
                    /\ \A other \in KeySet(chats) \ {id} :
                          /\ HistoryOf(chats', other) = HistoryOf(chats, other)
                          /\ DictGet(chat_titles', other, EmptyText) =
                                 DictGet(chat_titles, other, EmptyText)
                    /\ id # active_chat => active_chat' = active_chat]_vars

\* A thread that was not active was deleted from a store holding an exchange.
C14_Witness ==
    /\ event.op = "delete"
    /\ event.chat_id # event.active
    /\ \E i \in 1..Len(event.keys) : event.keys[i] = event.chat_id
    /\ TotalUserTurns(chats) >= 1

IsPrefix(a, b) == Len(a) <= Len(b) /\ SubSeq(b, 1, Len(a)) = a

\* C15: for every operation other than the deletion of that thread, the
\* history a thread had before the operation is a prefix of its history
\* after it.
C15_AppendOnly ==
    [][\A id \in KeySet(chats) :
          \/ event'.op = "delete" /\ event'.chat_id = id
          \/ /\ id \in KeySet(chats')
             /\ IsPrefix(HistoryOf(chats, id), HistoryOf(chats', id))]_vars

\* New Chat ran on a store whose threads hold two exchanges.
C15_Witness ==
    /\ event.op = "new"
    /\ TotalUserTurns(chats) >= 2

CompletionRequests(e) == SelectSeq(e.requests, LAMBDA r : r.to = "completion")

TitleRequests(e) == SelectSeq(e.requests, LAMBDA r : r.to = "title")

\* C16: a non-empty submission sends exactly one completion request, first,
\* and at most one title request; the completion request carries the active
\* thread's history from the greeting to the user turn just appended, each
\* turn with its role as stored.
C16_OneRequestFullHistory ==
    [][(event'.op = "send" /\ event'.prompt # EmptyText) =>
          LET before == HistoryOf(chats, active_chat)
              sent == CompletionRequests(event')
          IN /\ Len(sent) = 1
             /\ Len(TitleRequests(event')) <= 1
             /\ event'.requests[1].to = "completion"
             /\ Len(sent[1].history) = Len(before) + 1
             /\ \A i \in 1..Len(before) :
                   /\ sent[1].history[i].role = before[i].role
                   /\ sent[1].history[i].parts = <<[text |-> before[i].content]>>
             /\ sent[1].history[1] = [role |-> "model", parts |-> <<[text |-> Greeting]>>]
             /\ sent[1].history[Len(before) + 1] =
                    [role |-> "user", parts |-> <<[text |-> event'.prompt]>>]]_vars

\* A completion failed in a thread that already held an exchange, and one
\* request was sent.
C16_Witness ==
    /\ event.op = "send"
    /\ event.completion = "fail"
    /\ Len(event.requests) = 1
    /\ Len(event.requests[1].history) = 4
\* C17: a submission writes its turns and any title change to the thread that
\* was active when it started and to no other: active_chat, the counter, the
\* key sets and every other thread's history and title are the same before
\* and after it.
C17_SubmissionFrame ==
    [][(event'.op = "send" /\ event'.prompt # EmptyText) =>
          /\ event'.chat_id = active_chat
          /\ active_chat' = active_chat
          /\ chat_counter' = chat_counter
          /\ DictKeys(chats') = DictKeys(chats)
          /\ DictKeys(chat_titles') = DictKeys(chat_titles)
          /\ Len(HistoryOf(chats', active_chat)) = Len(HistoryOf(chats, active_chat)) + 2
          /\ \A other \in KeySet(chats) \ {active_chat} :
                /\ HistoryOf(chats', other) = HistoryOf(chats, other)
                /\ DictGet(chat_titles', other, EmptyText) =
                       DictGet(chat_titles, other, EmptyText)]_vars

\* A submission with a generated title ran in a thread that is not the one
\* inserted last, among several threads.
C17_Witness ==
    /\ event.op = "send"
    /\ event.title = "ok"
    /\ Len(chats) >= 2
    /\ active_chat # DictKeys(chats)[Len(chats)]

\* The user turns of all threads whose content is text.
RECURSIVE UserTurnsWith(_, _)
UserTurnsWith(d, text) ==
    IF d = <<>> THEN 0
    ELSE Len(SelectSeq(d[1].v, LAMBDA m : m.role = "user" /\ m.content = text))
             + UserTurnsWith(Tail(d), text)

\* C18: after every step user_input is empty; a submission of a non-empty
\* text adds that text as a user turn exactly once; a script run without
\* submitted text changes nothing; no other command adds a user turn.
C18_InputClearedOnce ==
    [][/\ user_input' = EmptyText
       /\ (event'.op = "send" /\ event'.prompt = EmptyText) => session' = session
       /\ (event'.op = "send" /\ event'.prompt # EmptyText) =>
              /\ UserTurnsWith(chats', event'.prompt) = UserTurnsWith(chats, event'.prompt) + 1
              /\ TotalUserTurns(chats') = TotalUserTurns(chats) + 1
       /\ event'.op # "send" => TotalUserTurns(chats') <= TotalUserTurns(chats)]_vars

\* After a submission whose completion failed, the script ran again without
\* submitted text.
C18_Witness ==
    /\ event.op = "send"
    /\ event.prompt = EmptyText
    /\ \E i \in 1..Len(chats) : Len(chats[i].v) = 3 /\ chats[i].v[3] = ErrorTurn(Quota)

\* C19: in every reachable state each key of chats is "Chat N" with
\* 1 <= N <= chat_counter, and the identifier New Chat mints, "Chat " +
\* (chat_counter + 1), is no key of chats when it is inserted.
C19_NewChatNeverOverwrites ==
    [][/\ KeySet(chats') \subseteq {ClaimedId(n) : n \in 1..chat_counter'}
       /\ event'.op = "new" =>
              /\ event'.chat_id = ClaimedId(chat_counter + 1)
              /\ event'.chat_id \notin KeySet(chats)
              /\ Len(chats') = Len(chats) + 1]_vars

\* New Chat minted "Chat 3" when "Chat 2" was the only thread left.
C19_Witness ==
    /\ event.op = "new"
    /\ event.keys = <<ClaimedId(2)>>
    /\ DictKeys(chats) = <<ClaimedId(2), ClaimedId(3)>>

\* C20: every thread's history starts with the greeting turn of role model,
\* has odd length, and its roles alternate model, user, model, ..., so every
\* user turn is followed by one model turn and the last turn is a model turn.
C20_RolesAlternate ==
    \A i \in 1..Len(chats) :
        LET h == chats[i].v
        IN /\ Len(h) % 2 = 1
           /\ h[1] = [role |-> "model", content |-> Greeting]
           /\ \A j \in 1..Len(h) :
                 h[j].role = IF j % 2 = 1 THEN "model" ELSE "user"

\* A thread holds a failed exchange followed by a successful one.
C20_Witness ==
    \E i \in 1..Len(chats) :
        /\ Len(chats[i].v) = 5
        /\ chats[i].v[3] = ErrorTurn(Quota)
        /\ chats[i].v[5].content = HiThere

====
